---- MODULE Spec2Model ----
(***************************************************************************)
(* Model of src/req.rs of nostr-bench: the rate-limited connection         *)
(* spawner, the per-connection lifecycle task (connect, keepalive-bounded  *)
(* request loop, terminal classification) and the periodic reporter, all   *)
(* sharing two lock-protected statistics structures.                       *)
(*                                                                         *)
(* The lifecycle tasks run the same code and differ only in the bind       *)
(* address they were spawned with, so the running tasks are kept as a bag  *)
(* of task states (conns); what depends on the index i of a task (bind,    *)
(* launchedAfter) is recorded per index when the task is spawned.          *)
(*                                                                         *)
(* Time is counted in whole seconds.  Every timer (sleep, timeout) is kept *)
(* as the number of seconds left until its deadline; Tick lets one second  *)
(* pass.  Code between two suspension points takes no model time: a second *)
(* only passes while every process is parked at an await (connect, sleep,  *)
(* send, read) or has ended, and a timer fires within the second of its    *)
(* deadline.  The duration fields of the statistics (time, success_time)   *)
(* are not modelled; the integer counters are.  sent, eose and age         *)
(* describe one open stream and are reset when wait() returns and the      *)
(* stream is dropped; age saturates at keepalive.                          *)
(*                                                                         *)
(* Spec takes every locked block of the code as one step.  SpecLive adds   *)
(* the fairness of the runtime to it.  SpecLocks follows the same code     *)
(* lock by lock (lpc, holds), leaving counters and timers aside.           *)
(***************************************************************************)
EXTENDS Integers, Sequences, FiniteSets, Bags, TLC

\* ---------------------------------------------------------------- bounds
MaxCount == 2
MaxRate == 2
MaxKeepalive == 2
\* EOSE messages the relay sends in one run
MaxCycles == 1

\* ------------------------------------------------------ program constants
RateSleepSecs == 1
WarmupSecs == 1
PollSecs == 2

Tasks == 0 .. (MaxCount - 1)
InterfaceLists == {<<>>, <<"A">>, <<"A", "B">>}
NoAddr == "None"

\* keepalive options: unbounded, as long as the warm-up, longer
Keepalives == {0, WarmupSecs, MaxKeepalive}

\* kinds of item the read half of the stream can yield
MsgKinds == {"EOSE", "text", "binary", "close", "none", "err"}

\* processes of the lock-level view: the lifecycle tasks and the reporter
ReporterProc == MaxCount
Procs == Tasks \cup {ReporterProc}

\* the two mutexes
Locks == {"stats", "event_stats"}

VARIABLES
    count, rate, keepalive, interfaces,   \* ReqOpts
    stats, event_stats,                   \* the two shared structures
    reqs,                                 \* request messages written to the streams so far
    spc, si, sdl, sleeps,                 \* spawner: position, loop index, sleep timer, sleeps completed
    spawned, bind, launchedAfter,         \* per task index: spawned?, bind address, spawner sleeps completed at launch
    conns,                                \* bag of the states of the spawned tasks
    rpc, last, elapsed, rdl,              \* reporter: position, baseline, seconds since last_time, sleep timer
    hits,                                 \* reporter: lines printed with complete = total
    lpc, holds                            \* lock-level view: position and locks held, per process

cfgVars == <<count, rate, keepalive, interfaces>>
spawnerVars == <<spc, si, sdl, sleeps, spawned, bind, launchedAfter>>
reporterVars == <<rpc, last, elapsed, rdl, hits>>
lockVars == <<lpc, holds>>
vars == <<cfgVars, stats, event_stats, reqs, spawnerVars, conns, reporterVars, lockVars>>

Min(a, b) == IF a < b THEN a ELSE b

\* ------------------------------------------------------- stats updates
\* add1!(stats, f): lock, increment field f, unlock
Add1(s, f) == [s EXCEPT ![f] = @ + 1]

\* add1!(stats, f, g): lock, increment both fields, unlock
Add1Two(s, f, g) == [s EXCEPT ![f] = @ + 1, ![g] = @ + 1]

\* subtract1!(stats, f): lock, decrement field f, unlock
Subtract1(s, f) == [s EXCEPT ![f] = @ - 1]

\* ------------------------------------------------------------- messages
IsText(m) == m \in {"EOSE", "text"}
ContainsEOSE(m) == m = "EOSE"
IsClose(m) == m = "close"

\* ------------------------------------------------------------ task states
\* state of a task that was just spawned: position, result of wait(),
\* keepalive timer, warm-up timer, seconds established, messages sent on
\* the stream, EOSE messages processed
NewTask == [pc |-> "add_connect", wres |-> "none", kdl |-> 0, wdl |-> 0,
            age |-> 0, sent |-> <<>>, eose |-> 0]

\* the tasks, as a set of states
Conns == BagToSet(conns)

\* one task moves from state c to state d
Move(c, d) == conns' = (conns (-) SetToBag({c})) (+) SetToBag({d})

RECURSIVE SumCopies(_)
SumCopies(S) ==
    IF S = {} THEN 0
    ELSE LET c == CHOOSE x \in S : TRUE
         IN  CopiesIn(c, conns) + SumCopies(S \ {c})

\* number of tasks whose position is in P
NumAt(P) == SumCopies({c \in Conns : c.pc \in P})

\* ------------------------------------------------------------ initial state
\* state after lines 45-58 and 109-111, for options drawn from the given sets
InitWith(counts, rates, keepalives, lists) ==
    /\ count \in counts
    /\ rate \in rates
    /\ keepalive \in keepalives
    /\ interfaces \in lists
    /\ stats = [total |-> count, connect |-> 0, alive |-> 0, close |-> 0,
                lost |-> 0, error |-> 0, complete |-> 0]
    /\ event_stats = [total |-> 0, complete |-> 0, error |-> 0]
    /\ reqs = 0
    /\ spc = "loop" /\ si = 0 /\ sdl = 0 /\ sleeps = 0
    /\ spawned = {}
    /\ bind = [i \in Tasks |-> NoAddr]
    /\ launchedAfter = [i \in Tasks |-> 0]
    /\ conns = EmptyBag
    /\ rpc = "tick" /\ last = 0 /\ elapsed = 0 /\ rdl = 0
    /\ hits = 0
    /\ lpc = [p \in Procs |-> IF p = ReporterProc THEN "snapshot" ELSE "add_connect"]
    /\ holds = [p \in Procs |-> {}]

\* every count, rate and keepalive, no bind interfaces
Init == InitWith(0 .. MaxCount, 0 .. MaxRate, Keepalives, {<<>>})

\* every count and interface list, one rate and keepalive
InitBind == InitWith(0 .. MaxCount, {MaxRate}, {WarmupSecs}, InterfaceLists)

\* ---------------------------------------------------------------- spawner
\* variant: the list is indexed from the second entry
InterfaceOffByOne(i) ==
    IF Len(interfaces) > 0
    THEN interfaces[((i + 1) % Len(interfaces)) + 1]
    ELSE NoAddr

\* interface chosen for task i (0-based index into the list)
Interface(i) ==
    IF Len(interfaces) > 0
    THEN interfaces[(i % Len(interfaces)) + 1]
    ELSE NoAddr

\* variant: the batch test uses i instead of i + 1
SpawnerLaunchTestsIndex ==
    /\ spc = "loop"
    /\ si < count
    /\ conns' = conns (+) SetToBag({NewTask})
    /\ spawned' = spawned \cup {si}
    /\ bind' = [bind EXCEPT ![si] = Interface(si)]
    /\ launchedAfter' = [launchedAfter EXCEPT ![si] = sleeps]
    /\ IF rate = 0
       THEN /\ spc' = "panicked"
            /\ UNCHANGED <<si, sdl>>
       ELSE IF si % rate = 0
       THEN /\ spc' = "sleep"
            /\ sdl' = RateSleepSecs
            /\ si' = si + 1
       ELSE /\ si' = si + 1
            /\ UNCHANGED <<spc, sdl>>
    /\ UNCHANGED <<cfgVars, lockVars, reqs, stats, event_stats, sleeps, reporterVars>>

\* one iteration of the for loop up to its suspension point: spawn task si,
\* then evaluate (i + 1) % rate, which panics when rate is 0
SpawnerLaunch ==
    /\ spc = "loop"
    /\ si < count
    /\ conns' = conns (+) SetToBag({NewTask})
    /\ spawned' = spawned \cup {si}
    /\ bind' = [bind EXCEPT ![si] = Interface(si)]
    /\ launchedAfter' = [launchedAfter EXCEPT ![si] = sleeps]
    /\ IF rate = 0
       THEN /\ spc' = "panicked"
            /\ UNCHANGED <<si, sdl>>
       ELSE IF (si + 1) % rate = 0
       THEN /\ spc' = "sleep"
            /\ sdl' = RateSleepSecs
            /\ si' = si + 1
       ELSE /\ si' = si + 1
            /\ UNCHANGED <<spc, sdl>>
    /\ UNCHANGED <<cfgVars, lockVars, reqs, stats, event_stats, sleeps, reporterVars>>

\* the one-second sleep after a batch has elapsed
SpawnerWake ==
    /\ spc = "sleep"
    /\ sdl = 0
    /\ spc' = "loop"
    /\ sleeps' = sleeps + 1
    /\ UNCHANGED <<cfgVars, lockVars, reqs, stats, event_stats, si, sdl, spawned, bind, launchedAfter>>
    /\ UNCHANGED <<conns, reporterVars>>

\* the range 0..count is exhausted: the spawner task returns
SpawnerReturn ==
    /\ spc = "loop"
    /\ si >= count
    /\ spc' = "done"
    /\ UNCHANGED <<cfgVars, lockVars, reqs, stats, event_stats, si, sdl, sleeps, spawned, bind, launchedAfter>>
    /\ UNCHANGED <<conns, reporterVars>>

\* ----------------------------------------------------------- lifecycle task
\* variant: the attempt is not counted before the connect call
AddConnectUncounted(c) ==
    /\ c.pc = "add_connect"
    /\ Move(c, [c EXCEPT !.pc = "connect"])
    /\ UNCHANGED <<cfgVars, lockVars, reqs, stats, event_stats, spawnerVars, reporterVars>>

\* add1!(stats, connect), then the connect call is issued
AddConnect(c) ==
    /\ c.pc = "add_connect"
    /\ stats' = Add1(stats, "connect")
    /\ Move(c, [c EXCEPT !.pc = "connect"])
    /\ UNCHANGED <<cfgVars, lockVars, reqs, event_stats, spawnerVars, reporterVars>>

\* connect(..).await returns Ok(stream) or Err; stats.time is then stored
ConnectReturn(c) ==
    /\ c.pc = "connect"
    /\ \E ok \in BOOLEAN :
          Move(c, [c EXCEPT !.pc = IF ok THEN "on_ok" ELSE "on_err"])
    /\ UNCHANGED <<cfgVars, lockVars, reqs, stats, event_stats, spawnerVars, reporterVars>>

\* variant: the timeout is armed only once the warm-up sleep is over
OnOkArmsAfterWarmup(c) ==
    /\ c.pc = "on_ok"
    /\ stats' = [stats EXCEPT !.alive = @ + 1]
    /\ Move(c, [c EXCEPT !.pc = "warmup", !.kdl = keepalive + WarmupSecs, !.wdl = WarmupSecs])
    /\ UNCHANGED <<cfgVars, lockVars, reqs, event_stats, spawnerVars, reporterVars>>

\* variant: alive is written from a value read before other tasks' updates
OnOkStale(c) ==
    /\ c.pc = "on_ok"
    /\ stats' = [stats EXCEPT !.alive = 1]
    /\ Move(c, [c EXCEPT !.pc = "warmup", !.kdl = keepalive, !.wdl = WarmupSecs])
    /\ UNCHANGED <<cfgVars, lockVars, reqs, event_stats, spawnerVars, reporterVars>>

\* Ok(stream): alive += 1 under the lock, then wait() is entered: the
\* keepalive timeout is armed when keepalive > 0 and loop_req runs to its
\* warm-up sleep
OnOk(c) ==
    /\ c.pc = "on_ok"
    /\ stats' = [stats EXCEPT !.alive = @ + 1]
    /\ Move(c, [c EXCEPT !.pc = "warmup", !.kdl = keepalive, !.wdl = WarmupSecs])
    /\ UNCHANGED <<cfgVars, lockVars, reqs, event_stats, spawnerVars, reporterVars>>

\* variant: the Err arm takes the connection out of alive as well
OnErrSubtractsAlive(c) ==
    /\ c.pc = "on_err"
    /\ stats' = Add1(Subtract1(stats, "alive"), "error")
    /\ Move(c, [c EXCEPT !.pc = "add_complete"])
    /\ UNCHANGED <<cfgVars, lockVars, reqs, event_stats, spawnerVars, reporterVars>>

\* variant: the Err arm counts the completion itself as well
OnErrAlsoCompletes(c) ==
    /\ c.pc = "on_err"
    /\ stats' = Add1Two(stats, "error", "complete")
    /\ Move(c, [c EXCEPT !.pc = "add_complete"])
    /\ UNCHANGED <<cfgVars, lockVars, reqs, event_stats, spawnerVars, reporterVars>>

\* Err(_): add1!(stats, error)
OnErr(c) ==
    /\ c.pc = "on_err"
    /\ stats' = Add1(stats, "error")
    /\ Move(c, [c EXCEPT !.pc = "add_complete"])
    /\ UNCHANGED <<cfgVars, lockVars, reqs, event_stats, spawnerVars, reporterVars>>

\* suspension points of loop_req, where the keepalive timeout can cut in
AwaitPoints == {"warmup", "send_req", "send_close", "read"}

\* state of task c once wait() has returned r: the stream, the timeout and
\* the loop's locals are dropped
WaitReturns(c, r) ==
    [c EXCEPT !.pc = "sub_alive", !.wres = r, !.kdl = 0, !.wdl = 0,
              !.age = 0, !.sent = <<>>, !.eose = 0]

\* variant: the timeout is applied even when keepalive is 0
KeepaliveTimeoutAlways(c) ==
    /\ c.pc \in AwaitPoints
    /\ c.kdl = 0
    /\ Move(c, WaitReturns(c, "AliveTimeout"))
    /\ UNCHANGED <<cfgVars, lockVars, reqs, stats, event_stats, spawnerVars, reporterVars>>

\* variant: the cycle in flight is taken back out of total
KeepaliveTimeoutRollsBack(c) ==
    /\ c.pc \in AwaitPoints
    /\ keepalive # 0
    /\ c.kdl = 0
    /\ event_stats' = IF c.pc = "warmup" THEN event_stats
                      ELSE Subtract1(event_stats, "total")
    /\ Move(c, WaitReturns(c, "AliveTimeout"))
    /\ UNCHANGED <<cfgVars, lockVars, reqs, stats, spawnerVars, reporterVars>>

\* variant: the timeout guards only the wait for an incoming message
KeepaliveTimeoutAtReadOnly(c) ==
    /\ c.pc = "read"
    /\ keepalive # 0
    /\ c.kdl = 0
    /\ Move(c, WaitReturns(c, "AliveTimeout"))
    /\ UNCHANGED <<cfgVars, lockVars, reqs, stats, event_stats, spawnerVars, reporterVars>>

\* time::timeout elapses while loop_req is pending: Err(AliveTimeout)
KeepaliveTimeout(c) ==
    /\ c.pc \in AwaitPoints
    /\ keepalive # 0
    /\ c.kdl = 0
    /\ Move(c, WaitReturns(c, "AliveTimeout"))
    /\ UNCHANGED <<cfgVars, lockVars, reqs, stats, event_stats, spawnerVars, reporterVars>>

\* variant: the first request of a stream is not counted in total
WarmupDoneNoTotal(c) ==
    /\ c.pc = "warmup"
    /\ c.wdl = 0
    /\ Move(c, [c EXCEPT !.pc = "send_req"])
    /\ UNCHANGED <<cfgVars, lockVars, reqs, stats, event_stats, spawnerVars, reporterVars>>

\* the warm-up sleep has elapsed: add1!(stats, total), first request issued
WarmupDone(c) ==
    /\ c.pc = "warmup"
    /\ c.wdl = 0
    /\ event_stats' = Add1(event_stats, "total")
    /\ Move(c, [c EXCEPT !.pc = "send_req"])
    /\ UNCHANGED <<cfgVars, lockVars, reqs, stats, spawnerVars, reporterVars>>

\* write.send(Message::Text(req)).await? : sent, or an error ends the loop
SendReq(c) ==
    /\ c.pc = "send_req"
    /\ \E ok \in BOOLEAN :
          IF ok
          THEN /\ Move(c, [c EXCEPT !.pc = "read", !.sent = Append(@, "REQ")])
               /\ reqs' = reqs + 1
          ELSE /\ Move(c, WaitReturns(c, "Lost"))
               /\ UNCHANGED reqs
    /\ UNCHANGED <<cfgVars, lockVars, stats, event_stats, spawnerVars, reporterVars>>

\* variant: every text message is taken for the end of a cycle
ReadMsgAnyText(c) ==
    /\ c.pc = "read"
    /\ \E m \in MsgKinds :
          /\ IsText(m) => event_stats.complete < MaxCycles
          /\ IF m = "none"
             THEN \* None => break; loop_req returns Ok(())
                  /\ Move(c, WaitReturns(c, "Ok"))
                  /\ UNCHANGED event_stats
             ELSE IF m = "err"
             THEN \* msg? propagates the error
                  /\ Move(c, WaitReturns(c, "Lost"))
                  /\ UNCHANGED event_stats
             ELSE IF IsText(m)
             THEN /\ event_stats' = Add1Two(event_stats, "complete", "total")
                  /\ Move(c, [c EXCEPT !.pc = "send_close",
                                       !.eose = IF ContainsEOSE(m) THEN @ + 1 ELSE @])
             ELSE IF IsClose(m)
             THEN \* break; loop_req returns Ok(())
                  /\ Move(c, WaitReturns(c, "Ok"))
                  /\ UNCHANGED event_stats
             ELSE UNCHANGED <<event_stats, conns>>
    /\ UNCHANGED <<cfgVars, lockVars, reqs, stats, spawnerVars, reporterVars>>

\* read.next().await yields one item
ReadMsg(c) ==
    /\ c.pc = "read"
    /\ \E m \in MsgKinds :
          /\ ContainsEOSE(m) => event_stats.complete < MaxCycles
          /\ IF m = "none"
             THEN \* None => break; loop_req returns Ok(())
                  /\ Move(c, WaitReturns(c, "Ok"))
                  /\ UNCHANGED event_stats
             ELSE IF m = "err"
             THEN \* msg? propagates the error
                  /\ Move(c, WaitReturns(c, "Lost"))
                  /\ UNCHANGED event_stats
             ELSE IF IsText(m)
             THEN IF ContainsEOSE(m)
                  THEN \* add1!(stats, complete, total), then the close is issued
                       /\ event_stats' = Add1Two(event_stats, "complete", "total")
                       /\ Move(c, [c EXCEPT !.pc = "send_close", !.eose = @ + 1])
                  ELSE UNCHANGED <<event_stats, conns>>
             ELSE IF IsClose(m)
             THEN \* break; loop_req returns Ok(())
                  /\ Move(c, WaitReturns(c, "Ok"))
                  /\ UNCHANGED event_stats
             ELSE UNCHANGED <<event_stats, conns>>
    /\ UNCHANGED <<cfgVars, lockVars, reqs, stats, spawnerVars, reporterVars>>

\* variant: the request sent again is counted in total a second time
SendCloseCountsTotal(c) ==
    /\ c.pc = "send_close"
    /\ \E ok \in BOOLEAN :
          IF ok
          THEN /\ Move(c, [c EXCEPT !.pc = "send_req", !.sent = Append(@, "CLOSE")])
               /\ event_stats' = Add1(event_stats, "total")
          ELSE /\ Move(c, WaitReturns(c, "Lost"))
               /\ UNCHANGED event_stats
    /\ UNCHANGED <<cfgVars, lockVars, reqs, stats, spawnerVars, reporterVars>>

\* write.send(Message::Text(gen_close(None))).await?
SendClose(c) ==
    /\ c.pc = "send_close"
    /\ \E ok \in BOOLEAN :
          IF ok
          THEN Move(c, [c EXCEPT !.pc = "send_req", !.sent = Append(@, "CLOSE")])
          ELSE Move(c, WaitReturns(c, "Lost"))
    /\ UNCHANGED <<cfgVars, lockVars, reqs, stats, event_stats, spawnerVars, reporterVars>>

\* wait() has returned: subtract1!(stats, alive)
SubAlive(c) ==
    /\ c.pc = "sub_alive"
    /\ stats' = Subtract1(stats, "alive")
    /\ Move(c, [c EXCEPT !.pc = "classify"])
    /\ UNCHANGED <<cfgVars, lockVars, reqs, event_stats, spawnerVars, reporterVars>>

\* variant: every Err of wait() is taken for the keepalive timeout
ClassifyAnyErrAsClose(c) ==
    /\ c.pc = "classify"
    /\ stats' = IF c.wres # "Ok"
                THEN Add1(stats, "close")
                ELSE Add1(stats, "lost")
    /\ Move(c, [c EXCEPT !.pc = "add_complete", !.wres = "none"])
    /\ UNCHANGED <<cfgVars, lockVars, reqs, event_stats, spawnerVars, reporterVars>>

\* variant: the else arm counts nothing
ClassifyDropsLost(c) ==
    /\ c.pc = "classify"
    /\ stats' = IF c.wres = "AliveTimeout"
                THEN Add1(stats, "close")
                ELSE stats
    /\ Move(c, [c EXCEPT !.pc = "add_complete", !.wres = "none"])
    /\ UNCHANGED <<cfgVars, lockVars, reqs, event_stats, spawnerVars, reporterVars>>

\* if let Err(Error::AliveTimeout) = res { add1!(close) } else { add1!(lost) };
\* res goes out of scope
Classify(c) ==
    /\ c.pc = "classify"
    /\ stats' = IF c.wres = "AliveTimeout"
                THEN Add1(stats, "close")
                ELSE Add1(stats, "lost")
    /\ Move(c, [c EXCEPT !.pc = "add_complete", !.wres = "none"])
    /\ UNCHANGED <<cfgVars, lockVars, reqs, event_stats, spawnerVars, reporterVars>>

\* add1!(stats, complete): the task ends
AddComplete(c) ==
    /\ c.pc = "add_complete"
    /\ stats' = Add1(stats, "complete")
    /\ Move(c, [c EXCEPT !.pc = "done"])
    /\ UNCHANGED <<cfgVars, lockVars, reqs, event_stats, spawnerVars, reporterVars>>

TaskStep(c) ==
    \/ AddConnect(c)
    \/ ConnectReturn(c)
    \/ OnOk(c)
    \/ OnErr(c)
    \/ KeepaliveTimeout(c)
    \/ WarmupDone(c)
    \/ SendReq(c)
    \/ ReadMsg(c)
    \/ SendClose(c)
    \/ SubAlive(c)
    \/ Classify(c)
    \/ AddComplete(c)

\* --------------------------------------------------------------- reporter
\* cur: events completed since the previous tick
Cur == event_stats.complete - event_stats.error - last

\* tps as printed: cur / elapsed when more than one whole second has passed
Tps == IF elapsed > 1 THEN Cur \div elapsed ELSE 0

\* variant: the baseline is taken from the cycles issued
ReporterTickBaselineTotal ==
    /\ rpc = "tick"
    /\ hits' = IF stats.complete = stats.total THEN hits + 1 ELSE hits
    /\ last' = event_stats.total - event_stats.error
    /\ elapsed' = 0
    /\ IF stats.complete = stats.total
       THEN /\ rpc' = "done"
            /\ UNCHANGED rdl
       ELSE /\ rpc' = "sleep"
            /\ rdl' = PollSecs
    /\ UNCHANGED <<cfgVars, lockVars, reqs, stats, event_stats, spawnerVars, conns>>

\* variant: the loop ends once every connection attempt has been issued
ReporterTickOnConnect ==
    /\ rpc = "tick"
    /\ hits' = IF stats.complete = stats.total THEN hits + 1 ELSE hits
    /\ last' = event_stats.complete - event_stats.error
    /\ elapsed' = 0
    /\ IF stats.connect = stats.total
       THEN /\ rpc' = "done"
            /\ UNCHANGED rdl
       ELSE /\ rpc' = "sleep"
            /\ rdl' = PollSecs
    /\ UNCHANGED <<cfgVars, lockVars, reqs, stats, event_stats, spawnerVars, conns>>

\* one pass of the loop body: both locks taken, line printed, baseline
\* updated, then break or a two-second sleep
ReporterTick ==
    /\ rpc = "tick"
    /\ hits' = IF stats.complete = stats.total THEN hits + 1 ELSE hits
    /\ last' = event_stats.complete - event_stats.error
    /\ elapsed' = 0
    /\ IF stats.complete = stats.total
       THEN /\ rpc' = "done"
            /\ UNCHANGED rdl
       ELSE /\ rpc' = "sleep"
            /\ rdl' = PollSecs
    /\ UNCHANGED <<cfgVars, lockVars, reqs, stats, event_stats, spawnerVars, conns>>

\* variant: last_time is taken again after the sleep
ReporterWakeResetsLastTime ==
    /\ rpc = "sleep"
    /\ rdl = 0
    /\ rpc' = "tick"
    /\ elapsed' = 0
    /\ UNCHANGED <<cfgVars, lockVars, reqs, stats, event_stats, spawnerVars, conns>>
    /\ UNCHANGED <<last, rdl, hits>>

\* the two-second sleep has elapsed
ReporterWake ==
    /\ rpc = "sleep"
    /\ rdl = 0
    /\ rpc' = "tick"
    /\ UNCHANGED <<cfgVars, lockVars, reqs, stats, event_stats, spawnerVars, conns>>
    /\ UNCHANGED <<last, elapsed, rdl, hits>>

\* ------------------------------------------------------------------ clock
\* positions that are plain code, not a suspension point
SyncPoints == {"add_connect", "on_ok", "on_err", "sub_alive", "classify", "add_complete"}

Dec(t) == IF t > 0 THEN t - 1 ELSE 0

\* task state c one second later
Later(c) ==
    [c EXCEPT !.kdl = Dec(@), !.wdl = Dec(@),
              !.age = IF c.pc \in AwaitPoints THEN Min(@ + 1, keepalive) ELSE @]

\* a timer of task c has reached its deadline and has not fired yet
TimerDue(c) ==
    \/ c.pc = "warmup" /\ c.wdl = 0
    \/ c.pc \in AwaitPoints /\ keepalive # 0 /\ c.kdl = 0

\* one second passes: running timers count down, running clocks count up
Tick ==
    /\ spc # "loop" /\ ~(spc = "sleep" /\ sdl = 0)
    /\ rpc # "tick" /\ ~(rpc = "sleep" /\ rdl = 0)
    /\ \A c \in Conns : c.pc \notin SyncPoints /\ ~TimerDue(c)
    /\ sdl' = Dec(sdl)
    /\ rdl' = Dec(rdl)
    /\ elapsed' = IF rpc = "sleep" THEN elapsed + 1 ELSE elapsed
    /\ conns' = [d \in {Later(c) : c \in Conns} |->
                    SumCopies({c \in Conns : Later(c) = d})]
    /\ UNCHANGED <<cfgVars, lockVars, reqs, stats, event_stats, spc, si, sleeps, spawned, bind, launchedAfter>>
    /\ UNCHANGED <<rpc, last, hits>>

Next ==
    \/ SpawnerLaunch
    \/ SpawnerWake
    \/ SpawnerReturn
    \/ \E c \in Conns : TaskStep(c)
    \/ ReporterTick
    \/ ReporterWake
    \/ Tick

Spec == Init /\ [][Next]_vars

SpecBind == InitBind /\ [][Next]_vars

\* ---------------------------------------------------------------- fairness
\* every count, a sleep after every launch or after every MaxRate-th, a
\* keepalive longer than the warm-up
InitLive == InitWith(0 .. MaxCount, {1, MaxRate}, {MaxKeepalive}, {<<>>})

\* steps the runtime takes on its own: code that is ready to run, and
\* timers that have reached their deadline
RuntimeStep ==
    \/ SpawnerLaunch
    \/ SpawnerWake
    \/ SpawnerReturn
    \/ \E c \in Conns :
          \/ AddConnect(c)
          \/ OnOk(c)
          \/ OnErr(c)
          \/ KeepaliveTimeout(c)
          \/ WarmupDone(c)
          \/ SubAlive(c)
          \/ Classify(c)
          \/ AddComplete(c)
    \/ ReporterTick
    \/ ReporterWake

\* the runtime keeps running ready tasks, time keeps passing, and every
\* connect attempt returns; what the relay sends, and whether a send
\* completes, is left open
Fairness ==
    /\ WF_vars(RuntimeStep)
    /\ WF_vars(Tick)
    /\ WF_vars(\E c \in Conns : ConnectReturn(c))

SpecLive == InitLive /\ [][Next]_vars /\ Fairness

\* ------------------------------------------------------- lock-level view
\* The actions above take each locked block as one step.  Here the same code
\* is followed lock by lock: a process at a "lock" step blocks until the
\* mutex is free, at an "unlock" step it leaves the block (the guard is
\* dropped), at an "await" step it is suspended until the awaited future
\* returns.  All count tasks are present from the start.
LockStep(l, n) == [op |-> "lock", lock |-> l, next |-> {n}]
UnlockStep(l, N) == [op |-> "unlock", lock |-> l, next |-> N]
AwaitStep(N) == [op |-> "await", lock |-> "none", next |-> N]
EndStep == [op |-> "end", lock |-> "none", next |-> {}]

\* variant: the guard taken for alive += 1 lives until the end of the Ok arm
TaskProgGuardOutlivesBlock(pos) ==
    CASE pos = "add_connect" -> LockStep("stats", "add_connect_end")
      [] pos = "add_connect_end" -> UnlockStep("stats", {"connect"})
      [] pos = "connect" -> AwaitStep({"set_time"})
      [] pos = "set_time" -> LockStep("stats", "set_time_end")
      [] pos = "set_time_end" -> UnlockStep("stats", {"add_alive", "add_error"})
      [] pos = "add_alive" -> LockStep("stats", "wait")
      [] pos = "add_alive_end" -> UnlockStep("stats", {"wait"})
      [] pos = "sub_alive" -> LockStep("stats", "sub_alive_end")
      [] pos = "sub_alive_end" -> UnlockStep("stats", {"classify"})
      [] pos = "classify" -> LockStep("stats", "classify_end")
      [] pos = "classify_end" -> UnlockStep("stats", {"add_complete"})
      [] pos = "add_error" -> LockStep("stats", "add_error_end")
      [] pos = "add_error_end" -> UnlockStep("stats", {"add_complete"})
      [] pos = "add_complete" -> LockStep("stats", "add_complete_end")
      [] pos = "add_complete_end" -> UnlockStep("stats", {"done"})
      [] OTHER -> EndStep

\* the lifecycle task (lines 73-102): add1!(connect), connect().await, the
\* block storing r.time, then the Ok arm (the alive block, wait(),
\* subtract1!(alive), add1!(close) or add1!(lost)) or the Err arm
\* (add1!(error)), then add1!(complete)
TaskProg(pos) ==
    CASE pos = "add_connect" -> LockStep("stats", "add_connect_end")
      [] pos = "add_connect_end" -> UnlockStep("stats", {"connect"})
      [] pos = "connect" -> AwaitStep({"set_time"})
      [] pos = "set_time" -> LockStep("stats", "set_time_end")
      [] pos = "set_time_end" -> UnlockStep("stats", {"add_alive", "add_error"})
      [] pos = "add_alive" -> LockStep("stats", "add_alive_end")
      [] pos = "add_alive_end" -> UnlockStep("stats", {"wait"})
      [] pos = "sub_alive" -> LockStep("stats", "sub_alive_end")
      [] pos = "sub_alive_end" -> UnlockStep("stats", {"classify"})
      [] pos = "classify" -> LockStep("stats", "classify_end")
      [] pos = "classify_end" -> UnlockStep("stats", {"add_complete"})
      [] pos = "add_error" -> LockStep("stats", "add_error_end")
      [] pos = "add_error_end" -> UnlockStep("stats", {"add_complete"})
      [] pos = "add_complete" -> LockStep("stats", "add_complete_end")
      [] pos = "add_complete_end" -> UnlockStep("stats", {"done"})
      [] OTHER -> EndStep

\* wait() and loop_req (lines 148-205): every await can also end the wait
\* (timeout, error, close, end of stream), which leads to subtract1!(alive)
LoopReqProg(pos) ==
    CASE pos = "wait" -> AwaitStep({"add_total", "sub_alive"})
      [] pos = "add_total" -> LockStep("event_stats", "add_total_end")
      [] pos = "add_total_end" -> UnlockStep("event_stats", {"send_req"})
      [] pos = "send_req" -> AwaitStep({"read", "sub_alive"})
      [] pos = "read" -> AwaitStep({"success_time", "sub_alive"})
      [] pos = "success_time" -> LockStep("event_stats", "success_time_end")
      [] pos = "success_time_end" -> UnlockStep("event_stats", {"add_cycle"})
      [] pos = "add_cycle" -> LockStep("event_stats", "add_cycle_end")
      [] pos = "add_cycle_end" -> UnlockStep("event_stats", {"send_close"})
      [] pos = "send_close" -> AwaitStep({"send_req", "sub_alive"})
      [] OTHER -> EndStep

LoopReqPositions == {"wait", "add_total", "add_total_end", "send_req", "read", "success_time",
                     "success_time_end", "add_cycle", "add_cycle_end", "send_close"}

\* the reporter (lines 113-144): s = stats.lock(), event_s = event_stats.lock(),
\* the line is printed, the guards are dropped in reverse order at the end
\* of the block, then break (every task has counted itself in complete) or
\* a two-second sleep
ReporterProg(pos) ==
    CASE pos = "snapshot" -> LockStep("stats", "snapshot_event")
      [] pos = "snapshot_event" -> LockStep("event_stats", "print")
      [] pos = "print" -> UnlockStep("event_stats", {"print_end"})
      [] pos = "print_end" ->
            UnlockStep("stats", IF \A t \in Tasks : lpc[t] = "done"
                                THEN {"done"} ELSE {"sleep"})
      [] pos = "sleep" -> AwaitStep({"snapshot"})
      [] OTHER -> EndStep

\* the step process p is at
Prog(p) ==
    IF p = ReporterProc THEN ReporterProg(lpc[p])
    ELSE IF lpc[p] \in LoopReqPositions THEN LoopReqProg(lpc[p])
    ELSE TaskProg(lpc[p])

\* the process holding mutex l, if any
Holders(l) == {q \in Procs : l \in holds[q]}

\* Mutex::lock returns: the mutex was free and is now held by p
LockAcquire(p) ==
    /\ Prog(p).op = "lock"
    /\ Holders(Prog(p).lock) = {}
    /\ holds' = [holds EXCEPT ![p] = @ \cup {Prog(p).lock}]
    /\ \E n \in Prog(p).next : lpc' = [lpc EXCEPT ![p] = n]
    /\ UNCHANGED <<cfgVars, stats, event_stats, reqs, spawnerVars, conns, reporterVars>>

\* a guard goes out of scope
LockRelease(p) ==
    /\ Prog(p).op = "unlock"
    /\ holds' = [holds EXCEPT ![p] = @ \ {Prog(p).lock}]
    /\ \E n \in Prog(p).next : lpc' = [lpc EXCEPT ![p] = n]
    /\ UNCHANGED <<cfgVars, stats, event_stats, reqs, spawnerVars, conns, reporterVars>>

\* an awaited future returns
AwaitReturns(p) ==
    /\ Prog(p).op = "await"
    /\ \E n \in Prog(p).next : lpc' = [lpc EXCEPT ![p] = n]
    /\ UNCHANGED <<cfgVars, stats, event_stats, reqs, spawnerVars, conns, reporterVars>>
    /\ UNCHANGED holds

InitLocks == InitWith({MaxCount}, {MaxRate}, {MaxKeepalive}, {<<>>})

NextLocks ==
    \E p \in Procs :
        \/ LockAcquire(p)
        \/ LockRelease(p)
        \/ AwaitReturns(p)

\* a running process leaves its locked block; a mutex that keeps becoming
\* free is eventually handed to each process waiting for it
LockFairness ==
    \A p \in Procs :
        /\ WF_vars(LockRelease(p))
        /\ SF_vars(LockAcquire(p))

SpecLocks == InitLocks /\ [][NextLocks]_vars /\ LockFairness

\* ------------------------------------------------------------ properties
\* C1: once the spawner has stopped (returned or died) it has launched
\* exactly count tasks, for every count and every rate
C1_AllLaunched ==
    spc \in {"done", "panicked"} =>
        /\ spawned = 0 .. (count - 1)
        /\ BagCardinality(conns) = count

\* C2: ConnectionStats.completed never exceeds total and never decreases
C2_CompletedBounded ==
    /\ [](stats.complete <= stats.total)
    /\ [][stats'.complete >= stats.complete]_vars

C2_Witness ==
    /\ count = MaxCount
    /\ stats.complete = stats.total

\* C3: in the snapshot of the tick at which the reporter returns,
\* completed = closed + lost + errored
C3_EndSnapshot ==
    rpc = "done" => stats.complete = stats.close + stats.lost + stats.error

C3_Witness ==
    /\ rpc = "done"
    /\ stats.close > 0
    /\ stats.lost + stats.error > 0

\* C4: with keepalive 0 no connection is ever counted in closed
C4_NoClosedWithoutKeepalive ==
    keepalive = 0 => stats.close = 0

C4_Witness ==
    /\ keepalive = 0
    /\ stats.lost > 0
    /\ stats.error > 0
    /\ stats.complete = stats.total

\* C5: with keepalive K > 0 a connection that only ends by the deadline is
\* cut off no earlier than K seconds after it was established, the K seconds
\* run from the establishment (warm-up included), it then proceeds without
\* waiting to one alive decrement and one closed increment, lost untouched
C5_ClosedAtDeadline ==
    /\ [](\A c \in Conns :
            /\ (keepalive > 0 /\ c.pc \in AwaitPoints) =>
                  /\ c.kdl + c.age = keepalive
                  /\ c.kdl = 0 => ENABLED KeepaliveTimeout(c)
            /\ c.wres = "AliveTimeout" =>
                  /\ c.pc \in {"sub_alive", "classify"}
                  /\ ENABLED TaskStep(c))
    /\ [][\A c \in Conns : \A d \in BagToSet(conns') :
            /\ (c.wres # "AliveTimeout" /\ d.wres = "AliveTimeout" /\ Move(c, d)) =>
                  /\ keepalive > 0
                  /\ c.age >= keepalive
                  /\ d.pc = "sub_alive"
            /\ (c.wres = "AliveTimeout" /\ c.pc = "sub_alive" /\ c # d /\ Move(c, d)) =>
                  /\ d.pc = "classify"
                  /\ stats' = [stats EXCEPT !.alive = @ - 1]
            /\ (c.wres = "AliveTimeout" /\ c.pc = "classify" /\ c # d /\ Move(c, d)) =>
                  /\ d.pc = "add_complete"
                  /\ stats' = [stats EXCEPT !.close = @ + 1]]_vars

C5_Witness ==
    /\ keepalive = MaxKeepalive
    /\ count = MaxCount
    /\ stats.close = count
    /\ stats.alive = 0

\* C6: no counter update is lost: every counter equals the number of tasks
\* that have issued its increment and not its decrement; when all N tasks
\* are connected and none has ended, alive = N
C6_NoLostUpdate ==
    /\ stats.connect = NumAt({"connect", "on_ok", "on_err", "sub_alive", "classify",
                              "add_complete", "done"} \cup AwaitPoints)
    /\ stats.alive = NumAt(AwaitPoints \cup {"sub_alive"})
    /\ stats.close + stats.lost + stats.error = NumAt({"add_complete", "done"})
    /\ stats.complete = NumAt({"done"})
    /\ stats.total = count

C6_Witness ==
    /\ count = MaxCount
    /\ NumAt(AwaitPoints) = MaxCount
    /\ stats.alive = MaxCount

\* C7: for rate >= 1, task i is launched after exactly floor(i / rate)
\* completed one-second sleeps, and the spawner sleeps once after every
\* rate-th launch
C7_Pacing ==
    rate >= 1 =>
        /\ \A i \in spawned : launchedAfter[i] = i \div rate
        /\ spc \in {"loop", "done"} => sleeps = si \div rate
        /\ spc = "sleep" => (si % rate = 0 /\ sleeps = (si \div rate) - 1)

C7_Witness ==
    /\ spc = "done"
    /\ rate >= 1
    /\ rate < count
    /\ sleeps = count \div rate

\* C8: task i is bound to interfaces[i mod L] (0-based) when the list has
\* L > 0 entries, and to no address when the list is empty
C8_RoundRobin ==
    \A i \in spawned :
        /\ interfaces = <<>> => bind[i] = NoAddr
        /\ interfaces = <<"A">> => bind[i] = "A"
        /\ interfaces = <<"A", "B">> => bind[i] = (IF i % 2 = 0 THEN "A" ELSE "B")
        /\ Len(interfaces) > 0 => bind[i] = interfaces[(i % Len(interfaces)) + 1]

C8_Witness ==
    /\ Len(interfaces) > 0
    /\ Len(interfaces) < count
    /\ spawned = 0 .. (count - 1)

\* C9: on an open stream that has processed n EOSE messages the connection
\* has sent REQ followed by n times (CLOSE, REQ), each close after the
\* completed increment and before the next request, and every processed
\* EOSE message adds exactly one to EventStats.completed
RECURSIVE Cycles(_)
Cycles(n) == IF n = 0 THEN <<"REQ">> ELSE Cycles(n - 1) \o <<"CLOSE", "REQ">>

C9_OncePerCycle ==
    /\ [](\A c \in Conns :
            /\ c.pc = "warmup" => (c.sent = <<>> /\ c.eose = 0)
            /\ c.pc = "read" => c.sent = Cycles(c.eose)
            /\ c.pc = "send_close" => (c.eose > 0 /\ c.sent = Cycles(c.eose - 1))
            /\ c.pc = "send_req" =>
                  c.sent = (IF c.eose = 0 THEN <<>>
                            ELSE Cycles(c.eose - 1) \o <<"CLOSE">>)
            /\ (count = 1 /\ c.pc \in AwaitPoints) => event_stats.complete = c.eose)
    /\ [][/\ \A c \in Conns : \A d \in BagToSet(conns') :
                (d.eose > c.eose /\ Move(c, d)) =>
                    /\ d.eose = c.eose + 1
                    /\ event_stats'.complete = event_stats.complete + 1
          /\ event_stats'.complete # event_stats.complete =>
                \E c \in Conns :
                    /\ c.pc = "read"
                    /\ Move(c, [c EXCEPT !.pc = "send_close", !.eose = @ + 1])]_vars

C9_Witness ==
    \E c \in Conns :
        /\ c.pc = "read"
        /\ c.eose = MaxCycles
        /\ Len(c.sent) = 2 * MaxCycles + 1

\* C10: the reporter returns at a tick, exactly when that tick's snapshot has
\* completed = total, after printing that snapshot's line, and with count 0
\* at its first tick
C10_ReturnsAtFirstFullTick ==
    /\ [](/\ hits = (IF rpc = "done" THEN 1 ELSE 0)
          /\ rpc = "done" => stats.complete = stats.total
          /\ count = 0 => rpc # "sleep")
    /\ [][/\ (rpc = "tick" /\ rpc' # rpc) =>
                (rpc' = "done" <=> stats.complete = stats.total)
          /\ (rpc' = "done" /\ rpc # "done") => rpc = "tick"]_vars

C10_Witness ==
    /\ rpc = "done"
    /\ count = MaxCount
    /\ stats.close > 0

\* C11: alive is incremented only by a task whose connect succeeded, and
\* decremented exactly once by that task when wait() has returned, whatever
\* ended the request loop; a task whose connect failed leaves alive alone;
\* alive is the number of tasks between the two updates and never negative
C11_AliveBalanced ==
    /\ [](/\ stats.alive >= 0
          /\ stats.alive = NumAt(AwaitPoints \cup {"sub_alive"}))
    /\ [][/\ \A c \in Conns : \A d \in BagToSet(conns') :
                (c.pc # d.pc /\ Move(c, d)) =>
                    /\ stats'.alive = stats.alive + 1 <=> c.pc = "on_ok"
                    /\ stats'.alive = stats.alive - 1 <=> c.pc = "sub_alive"
                    /\ c.pc \notin {"on_ok", "sub_alive"} => stats'.alive = stats.alive
                    /\ c.pc = "connect" => d.pc \in {"on_ok", "on_err"}
                    /\ c.pc = "on_ok" => d.pc \in AwaitPoints
                    /\ c.pc = "on_err" => d.pc = "add_complete"
                    /\ c.pc \in AwaitPoints => d.pc \in AwaitPoints \cup {"sub_alive"}
                    /\ c.pc = "sub_alive" => d.pc = "classify"
                    /\ c.pc = "classify" => d.pc = "add_complete"
                    /\ c.pc = "add_complete" => d.pc = "done"
                    /\ c.pc # "done"
          /\ stats'.alive # stats.alive =>
                \E c \in Conns : \E d \in BagToSet(conns') :
                    c.pc \in {"on_ok", "sub_alive"} /\ c.pc # d.pc /\ Move(c, d)]_vars

C11_Witness ==
    /\ count = MaxCount
    /\ stats.alive = 0
    /\ stats.close > 0
    /\ stats.error > 0
    /\ stats.complete = stats.total

\* C12: every task adds one to exactly one of closed, lost and errored, once,
\* and then one to completed: errored exactly when connect failed, closed
\* exactly when the keepalive deadline cut the request loop off, lost when
\* the loop ended any other way; no task stops short of these updates
C12_OneOutcome ==
    /\ [](/\ stats.close + stats.lost + stats.error = NumAt({"add_complete", "done"})
          /\ stats.complete = NumAt({"done"})
          /\ \A c \in Conns :
                /\ c.pc \in {"sub_alive", "classify"} <=> c.wres # "none"
                /\ c.wres \in {"none", "AliveTimeout", "Ok", "Lost"}
                /\ c.pc \in SyncPoints => ENABLED TaskStep(c))
    /\ [][/\ \A c \in Conns : \A d \in BagToSet(conns') :
                (c.pc # d.pc /\ Move(c, d)) =>
                    /\ stats'.error = stats.error + (IF c.pc = "on_err" THEN 1 ELSE 0)
                    /\ stats'.close = stats.close +
                          (IF c.pc = "classify" /\ c.wres = "AliveTimeout" THEN 1 ELSE 0)
                    /\ stats'.lost = stats.lost +
                          (IF c.pc = "classify" /\ c.wres # "AliveTimeout" THEN 1 ELSE 0)
                    /\ stats'.complete = stats.complete +
                          (IF c.pc = "add_complete" THEN 1 ELSE 0)
                    /\ d.pc = "on_err" => c.pc = "connect"
                    /\ d.pc = "classify" => (c.pc = "sub_alive" /\ d.wres = c.wres)
                    /\ d.wres = "AliveTimeout" =>
                          \/ c.wres = "AliveTimeout"
                          \/ c.pc \in AwaitPoints /\ keepalive > 0 /\ c.kdl = 0
                    /\ (d.wres \in {"Ok", "Lost"} /\ c.wres = "none") =>
                          c.pc \in {"send_req", "send_close", "read"}
          /\ <<stats.error, stats.close, stats.lost, stats.complete>>' #
                <<stats.error, stats.close, stats.lost, stats.complete>> =>
                \E c \in Conns : \E d \in BagToSet(conns') : c.pc # d.pc /\ Move(c, d)]_vars

C12_Witness ==
    /\ count = MaxCount
    /\ keepalive > 0
    /\ stats.close > 0
    /\ stats.lost > 0
    /\ stats.complete = stats.total

\* C13: with keepalive > 0 and rate >= 1, when every connect returns and the
\* runtime is fair, every launched task eventually adds one to completed and
\* the reporter returns, whatever the relay does; once completed = total the
\* reporter is at a tick or in a sleep that ends within the polling period,
\* and that tick returns
C13_EventuallyReturns ==
    /\ (keepalive > 0 /\ rate >= 1) =>
           <>[](/\ spc = "done"
                /\ BagCardinality(conns) = count
                /\ \A c \in Conns : c.pc = "done"
                /\ stats.complete = count
                /\ rpc = "done")
    /\ []((keepalive > 0 /\ rate >= 1 /\ stats.complete = stats.total /\ rpc = "sleep") =>
             /\ rdl <= PollSecs
             /\ rdl + elapsed = PollSecs
             /\ rdl = 0 => (ENABLED ReporterWake /\ ~ENABLED Tick))
    /\ [][(stats.complete = stats.total /\ rpc = "tick" /\ rpc' # rpc) => rpc' = "done"]_vars

C13_Witness ==
    /\ count = MaxCount
    /\ rate < count
    /\ keepalive = MaxKeepalive
    /\ rpc = "done"
    /\ stats.close = count
    /\ event_stats.total = count
    /\ event_stats.complete = 0

\* C14 as stated: whenever every connection is waiting for an incoming
\* message or has terminated, EventStats.total is the number of request
\* messages sent
C14_TotalIsRequestsSent ==
    (\A c \in Conns : c.pc \in {"read", "done"}) => event_stats.total = reqs

\* C14 as amended: EventStats.total is never less than the number of request
\* messages sent; it is ahead by one for every connection that is about to
\* send the request (or the close before it) of a cycle already counted, and
\* by at most one for every connection whose request loop has ended; so it
\* equals the number sent whenever every connection is waiting for an
\* incoming message or terminated on a failed connect
C14_TotalCountsIssuedCycles ==
    /\ reqs <= event_stats.total
    /\ event_stats.total - reqs >= NumAt({"send_req", "send_close"})
    /\ event_stats.total - reqs <=
          NumAt({"send_req", "send_close", "sub_alive", "classify"}) + stats.close + stats.lost
    /\ ((\A c \in Conns : c.pc \in {"read", "done"}) /\ stats.close + stats.lost = 0) =>
          event_stats.total = reqs

C14_Witness ==
    /\ count = MaxCount
    /\ \A c \in Conns : c.pc \in {"read", "done"}
    /\ NumAt({"read"}) = 1
    /\ NumAt({"done"}) = MaxCount - 1
    /\ reqs > 0
    /\ event_stats.total = reqs + 1

\* C15: the keepalive deadline cuts the request loop off at whichever
\* suspension point it is at (warm-up, a send, a read); the cut leaves
\* EventStats and the messages sent as they are, and from then on the task
\* sends nothing and updates EventStats no more
C15_AbortKeepsCounters ==
    /\ [](\A c \in Conns :
            (keepalive > 0 /\ c.kdl = 0 /\
             c.pc \in {"warmup", "send_req", "send_close", "read"}) =>
                ENABLED KeepaliveTimeout(c))
    /\ [][/\ \A c \in Conns : \A d \in BagToSet(conns') :
                /\ (c.wres # "AliveTimeout" /\ d.wres = "AliveTimeout" /\ Move(c, d)) =>
                      /\ c.pc \in {"warmup", "send_req", "send_close", "read"}
                      /\ event_stats' = event_stats
                      /\ reqs' = reqs
                      /\ d.pc = "sub_alive"
                /\ (c.pc \in {"sub_alive", "classify", "add_complete"} /\
                    c.pc # d.pc /\ Move(c, d)) =>
                      /\ d.pc \in {"classify", "add_complete", "done"}
                      /\ d.sent = <<>>
                      /\ event_stats' = event_stats
                      /\ reqs' = reqs
                /\ (c.pc = "done" /\ Move(c, d)) => d = c
          /\ (event_stats' # event_stats \/ reqs' # reqs) =>
                \E c \in Conns : \E d \in BagToSet(conns') :
                    /\ c.pc \in {"warmup", "send_req", "read"}
                    /\ c.wres = "none" /\ d.wres = "none"
                    /\ Move(c, d)]_vars

C15_Witness ==
    /\ count = 1
    /\ \E c \in Conns : c.wres = "AliveTimeout"
    /\ event_stats.total = 1
    /\ event_stats.complete = 0
    /\ reqs = 0

\* C16: EventStats.completed never exceeds EventStats.total, and total is
\* ahead by at most one per connection that connected successfully (one for
\* each connection with a cycle outstanding), because every end-of-stream
\* marker adds one to both in a single update
C16_CompletedWithinTotal ==
    /\ [](/\ event_stats.complete <= event_stats.total
          /\ event_stats.total - event_stats.complete <=
                stats.alive + NumAt({"classify"}) + stats.close + stats.lost
          /\ event_stats.total - event_stats.complete >=
                NumAt({"send_req", "send_close", "read"}))
    /\ [][event_stats'.complete # event_stats.complete =>
            /\ event_stats'.complete = event_stats.complete + 1
            /\ event_stats'.total = event_stats.total + 1]_vars

C16_Witness ==
    /\ count = MaxCount
    /\ event_stats.complete = MaxCycles
    /\ event_stats.total = MaxCycles + MaxCount
    /\ stats.alive = MaxCount

\* C17: at every tick the delta is (completed - errored) of this tick minus
\* the baseline, the baseline is 0 before the first tick and is set to this
\* tick's (completed - errored) by the tick, and neither subtraction goes
\* below 0
C17_DeltaNeverNegative ==
    /\ [](/\ event_stats.complete - event_stats.error >= 0
          /\ Cur >= 0
          /\ Cur = event_stats.complete - event_stats.error - last
          /\ (rpc = "tick" /\ elapsed = 0) => last = 0)
    /\ [][/\ (rpc = "tick" /\ rpc' # rpc) =>
                /\ last' = event_stats.complete - event_stats.error
                /\ event_stats' = event_stats
          /\ ~(rpc = "tick" /\ rpc' # rpc) => last' = last
          /\ event_stats'.complete - event_stats'.error >=
                event_stats.complete - event_stats.error]_vars

C17_Witness ==
    /\ rpc = "tick"
    /\ elapsed = PollSecs
    /\ last > 0
    /\ Cur = 0

\* C18: at a tick the whole seconds elapsed since last_time are 0 (first
\* tick) or the polling period (every later tick), never the one value on
\* which "whole seconds > 1" and "more than one second" could disagree; so
\* the first tick reports 0 and every later tick reports delta / elapsed
C18_TpsBranch ==
    /\ [](rpc = "tick" =>
             /\ elapsed \in {0, PollSecs}
             /\ elapsed # 1
             /\ Tps = (IF elapsed = 0 THEN 0 ELSE Cur \div PollSecs))
    /\ [][/\ (rpc = "sleep" /\ rpc' = "tick") =>
                /\ elapsed' = PollSecs
                /\ elapsed' > 1
                /\ Tps' = Cur' \div elapsed'
          /\ (rpc = "tick" /\ rpc' = "tick") => elapsed' = elapsed
          /\ (rpc = "tick" /\ rpc' # "tick") => elapsed' = 0]_vars

C18_Witness ==
    /\ rpc = "tick"
    /\ elapsed = PollSecs
    /\ Cur > 0

\* C20: in every state completed <= closed + lost + errored and
\* alive + closed + lost + errored <= connecting <= total; the slack of the
\* first is the tasks classified and not yet completed, the slack of the
\* second the tasks counted in connecting and in no outcome yet
C20_CounterOrder ==
    /\ stats.complete <= stats.close + stats.lost + stats.error
    /\ stats.alive + stats.close + stats.lost + stats.error <= stats.connect
    /\ stats.connect <= stats.total
    /\ stats.close + stats.lost + stats.error - stats.complete = NumAt({"add_complete"})
    /\ stats.connect - (stats.alive + stats.close + stats.lost + stats.error) =
          NumAt({"connect", "on_ok", "on_err", "classify"})
    /\ stats.total - stats.connect = (count - BagCardinality(conns)) + NumAt({"add_connect"})

C20_Witness ==
    /\ count = MaxCount
    /\ stats.connect = stats.total
    /\ NumAt({"classify"}) > 0
    /\ NumAt({"add_complete"}) > 0

\* C19: the two mutexes never deadlock: each is held by one process at a
\* time, only the reporter ever holds both and it takes stats before
\* event_stats, a task holds at most one, nobody holds a mutex while
\* suspended at an await or after its end, so whoever holds a mutex is
\* about to release it or waits for one whose holder is; and every process
\* waiting for a mutex eventually gets it
C19_NoDeadlock ==
    /\ [](/\ \A l \in Locks : Cardinality(Holders(l)) <= 1
          /\ \A p \in Procs :
                /\ holds[p] = Locks => p = ReporterProc
                /\ p # ReporterProc => Cardinality(holds[p]) <= 1
                /\ Prog(p).op \in {"await", "end"} => holds[p] = {}
                /\ (Prog(p).op = "lock" /\ holds[p] # {}) =>
                      /\ p = ReporterProc
                      /\ holds[p] = {"stats"}
                      /\ Prog(p).lock = "event_stats"
                      /\ \A q \in Holders("event_stats") : ENABLED LockRelease(q)
                /\ holds[p] # {} => (Prog(p).op = "lock" \/ ENABLED LockRelease(p))
                /\ (Prog(p).op = "lock" /\ Holders(Prog(p).lock) = {}) =>
                      ENABLED LockAcquire(p))
    /\ [][\A p \in Procs :
            (holds'[p] = Locks /\ holds[p] # Locks) =>
                (p = ReporterProc /\ holds[p] = {"stats"})]_vars
    /\ \A p \in Procs : \A l \in Locks :
          (Prog(p).op = "lock" /\ Prog(p).lock = l) ~> (l \in holds[p])

C19_Witness ==
    /\ holds[ReporterProc] = Locks
    /\ \E t \in Tasks : Prog(t).op = "lock" /\ Prog(t).lock = "stats"
    /\ \E t \in Tasks : Prog(t).op = "lock" /\ Prog(t).lock = "event_stats"

====
